---------------------------- MODULE Spec2Model ----------------------------
(***************************************************************************)
(* A model of the MSL engine (notFaad/msl-engine): the interpreter of      *)
(* src/engine/mod.rs walking a script (a tree of commands), the media      *)
(* filter of src/scraper/mod.rs and the script parser of src/parser/mod.rs.*)
(*                                                                         *)
(* Strings the program only passes around (page URLs, selectors, variable  *)
(* names) are TLA+ strings; strings the program looks into (media URLs,    *)
(* filter values, script text) are sequences of one-character strings.     *)
(***************************************************************************)
EXTENDS Integers, Sequences, FiniteSets, TLC

VARIABLES
    script,        \* engine: the MslScript handed to execute (its commands)
    stack,         \* engine: the active `for command in ...` loops, innermost first
    current_html,  \* engine: MslEngine.current_html
    current_url,   \* engine: MslEngine.current_url
    variables,     \* engine: MslEngine.variables
    result,        \* engine: "Running", or what execute returned
    executed,      \* engine: paths of the commands dispatched so far, in order
    io,            \* engine: the scraper/downloader calls made so far, in order
    input,         \* a function under check on its own: its arguments
    output         \* ... and what it returned: <<>> before the call, <<value>> after

engine == <<script, stack, current_html, current_url, variables, result, executed, io>>
call == <<input, output>>
vars == <<script, stack, current_html, current_url, variables, result, executed, io,
          input, output>>

-----------------------------------------------------------------------------
(* Bounds of the model.                                                    *)

\* The largest number of commands (nested ones included) in a script.
MaxNodes == 4

\* The largest number of media items handed to filter_media.
MaxMedia == 2

\* The largest number of filters in a filter list.
MaxFilters == 2

\* The largest number of lines in a script text.
MaxLines == 4

-----------------------------------------------------------------------------
(* Option values.                                                          *)

None == "None"

-----------------------------------------------------------------------------
(* The command tree (parser/mod.rs, MslCommand and friends).               *)

Open(url) == [kind |-> "Open", url |-> url]
Click(selector, commands) ==
    [kind |-> "Click", selector |-> selector, commands |-> commands]
Set(variable, value) == [kind |-> "Set", variable |-> variable, value |-> value]
Media(media_blocks) == [kind |-> "Media", media_blocks |-> media_blocks]
Save(path) == [kind |-> "Save", path |-> path]
Wait(seconds) == [kind |-> "Wait", seconds |-> seconds]

Text == [kind |-> "Text"]
Attribute(name) == [kind |-> "Attribute", name |-> name]
Split(delimiter, index) == [kind |-> "Split", delimiter |-> delimiter, index |-> index]

MediaBlock(media_type, filters) ==
    [media_type |-> media_type, filters |-> filters, save_path |-> None]
Where(field, operator, value) ==
    [kind |-> "Where", field |-> field, operator |-> operator, value |-> value]
Extensions(extensions) == [kind |-> "Extensions", extensions |-> extensions]

MediaItem(url, media_type) == [url |-> url, media_type |-> media_type]

-----------------------------------------------------------------------------
(* Scraper::filter_media (scraper/mod.rs): substring, suffix, and the      *)
(* filter conjunction, on character sequences.                             *)

\* str::contains: needle occurs in hay as a contiguous substring.
Contains(hay, needle) ==
    \E i \in 0..(Len(hay) - Len(needle)) :
        \A k \in 1..Len(needle) : hay[i + k] = needle[k]

\* str::ends_with
EndsWith(hay, suffix) ==
    /\ Len(suffix) <= Len(hay)
    /\ \A k \in 1..Len(suffix) : hay[Len(hay) - Len(suffix) + k] = suffix[k]

\* The closure of filter_media's `all`: one filter against one item.
FilterMatches(item, filter) ==
    IF filter.kind = "Where"
    THEN IF filter.field = "src"
         THEN IF filter.operator = "~" THEN Contains(item.url, filter.value)
              ELSE IF filter.operator = "=" THEN item.url = filter.value
              ELSE TRUE
         ELSE TRUE
    ELSE \E e \in 1..Len(filter.extensions) :
             EndsWith(item.url, filter.extensions[e])

\* media.iter().filter(|item| filters.iter().all(...)).cloned().collect()
filter_media(media_items, filter_list) ==
    LET Keep(item) ==
            \A f \in 1..Len(filter_list) : FilterMatches(item, filter_list[f])
    IN  SelectSeq(media_items, Keep)

-----------------------------------------------------------------------------
(* The world the engine runs against: what a URL serves, and what the      *)
(* scraper extracts from a page.                                           *)

\* What get_html_content returns for a URL when the request succeeds.
Html(url) ==
    CASE url = "u1" -> "h1"
      [] url = "u2" -> "h2"
      [] url = "u3" -> "h3"
      [] OTHER -> "h0"

\* Selector::parse fails on a malformed selector.
ValidSelector(selector) == selector # "["

\* Scraper::extract_attribute(html, selector, "href"): the href values of the
\* matched elements, in document order, as written in the page.
extract_attribute(html, selector) ==
    CASE html = "h1" /\ selector = "a" -> <<"u2", "u3">>
      [] html = "h2" /\ selector = "a" -> <<"u3", "u1">>
      [] OTHER -> <<>>

\* Scraper::extract_media_from_html(html, base_url): images, then videos,
\* then audio, each in document order.
extract_media_from_html(html, base_url) ==
    CASE html = "h1" ->
            << MediaItem(<<"c", "/", "a", ".", "j">>, "Image"),
               MediaItem(<<"c", "/", "b">>, "Image"),
               MediaItem(<<"d", "/", "v">>, "Video") >>
      [] html = "h2" ->
            << MediaItem(<<"c", "/", "s", ".", "m">>, "Audio") >>
      [] OTHER -> <<>>

-----------------------------------------------------------------------------
(* The scripts the engine is run on.                                       *)

Selectors == {"a", "["}

BlocksA ==
    << MediaBlock("Image", << Extensions(<< <<"j">> >>) >>),
       MediaBlock("Video", << >>) >>

LeafCommands ==
    { Open("u1"), Open("u3"),
      Set("x", Text), Set("y", Attribute("href")),
      Media(BlocksA),
      Save("p"),
      Wait(0) }

\* One command on its own: what a line of a script can be.  A Click's body
\* is the commands nested under it.
SingleCommands == LeafCommands \cup {Click(s, <<>>) : s \in Selectors}

\* A script with n commands is written as its commands in source order, each
\* with its nesting depth (as the lines of a script text, with their
\* indentation): a command is nested under the nearest earlier command one
\* level up, which must be a Click.
ValidDepths(ds) ==
    /\ Len(ds) > 0 => ds[1] = 0
    /\ \A j \in 2..Len(ds) : ds[j] <= ds[j - 1] + 1

HasBody(ds, i) == i < Len(ds) /\ ds[i + 1] = ds[i] + 1

ValidLines(ds, ks) == \A i \in 1..Len(ds) : HasBody(ds, i) => ks[i].kind = "Click"

\* The elements of a set of numbers, in increasing order.
Ascending(S) ==
    [k \in 1..Cardinality(S) |-> CHOOSE j \in S : Cardinality({m \in S : m < j}) = k - 1]

\* The last line nested (at any depth) under line i; i itself if there is none.
SubtreeEnd(ds, i) ==
    CHOOSE e \in i..Len(ds) :
        /\ \A j \in (i + 1)..e : ds[j] > ds[i]
        /\ e = Len(ds) \/ ds[e + 1] <= ds[i]

ChildLines(ds, i) == Ascending({j \in (i + 1)..SubtreeEnd(ds, i) : ds[j] = ds[i] + 1})

RECURSIVE BuildCommand(_, _, _)
\* The MslCommand that line i and the lines nested under it stand for.
BuildCommand(ds, ks, i) ==
    IF ks[i].kind = "Click"
    THEN LET c == ChildLines(ds, i)
         IN  Click(ks[i].selector, [k \in 1..Len(c) |-> BuildCommand(ds, ks, c[k])])
    ELSE ks[i]

\* The MslScript (its commands) that the lines stand for.
BuildScript(ds, ks) ==
    LET top == Ascending({j \in 1..Len(ds) : ds[j] = 0})
    IN  [k \in 1..Len(top) |-> BuildCommand(ds, ks, top[k])]


-----------------------------------------------------------------------------
(* The interpreter (engine/mod.rs).  A frame is one running `for command   *)
(* in commands` loop: the commands it iterates, the index of the next one, *)
(* and the path of the Click whose body it is (<<>> for execute's loop).   *)

Frame(base, cmds) == [base |-> base, i |-> 1, cmds |-> cmds]

Top == stack[1]
HasNext == stack # <<>> /\ Top.i <= Len(Top.cmds)
NextCmd == Top.cmds[Top.i]
NextPath == Append(Top.base, Top.i)

\* The loop's iterator has yielded its next command.
Advance(st) == <<[st[1] EXCEPT !.i = @ + 1]>> \o Tail(st)

\* A slip EnterBody could make: the body is queued behind the enclosing loop.
EnterBodyDeferred(st, path, body) == Advance(st) \o <<Frame(path, body)>>

\* engine/mod.rs 98-100: execute_click runs its body inside the enclosing loop.
EnterBody(st, path, body) == <<Frame(path, body)>> \o Advance(st)

\* A slip Raise could make: the error is recorded but the loop goes on.
RaiseSwallowed(e) ==
    /\ result' = e
    /\ stack' = Advance(stack)

\* The `?` of lines 30, 45, 99 (and of every handler): the error leaves every
\* enclosing loop and is what execute returns.
Raise(e) ==
    /\ result' = e
    /\ stack' = <<>>

\* The handler returned Ok(()): the enclosing loop goes on.
Continue ==
    /\ result' = result
    /\ stack' = Advance(stack)

FetchPage(url, ok, by) == [op |-> "fetch_page", url |-> url, ok |-> ok, by |-> by]
GetHtml(url, ok, by) == [op |-> "get_html_content", url |-> url, ok |-> ok, by |-> by]
Download(item, ok, by) == [op |-> "download_media", item |-> item, ok |-> ok, by |-> by]
\* The call of line 140; it parses the page held in memory and cannot fail.
ExtractMedia(html, url, by) ==
    [op |-> "extract_media_from_html", html |-> html, url |-> url, ok |-> TRUE, by |-> by]

\* A slip FollowedLink could make: the last match instead of the first.
LastLink(links) == links[Len(links)]

\* engine/mod.rs 89: the link execute_click follows.
FollowedLink(links) == links[1]

\* A slip FetchBoth could make: the page is stored after the first request,
\* before the second one's `?`.
FetchBothStoresEarly(url, Loaded) ==
    \/ /\ io' = Append(io, FetchPage(url, FALSE, NextPath))
       /\ Raise("FetchFailed")
       /\ UNCHANGED <<current_html, current_url>>
    \/ /\ io' = io \o <<FetchPage(url, TRUE, NextPath), GetHtml(url, FALSE, NextPath)>>
       /\ Raise("FetchFailed")
       /\ current_html' = Html(url)
       /\ current_url' = url
    \/ /\ io' = io \o <<FetchPage(url, TRUE, NextPath), GetHtml(url, TRUE, NextPath)>>
       /\ current_html' = Html(url)
       /\ current_url' = url
       /\ result' = result
       /\ stack' = Loaded

\* The two requests of execute_open (66, 68) and execute_click (93, 94) for
\* `url`, either of which may fail; `Loaded` is what follows their success.
FetchBoth(url, Loaded) ==
    \/ /\ io' = Append(io, FetchPage(url, FALSE, NextPath))
       /\ Raise("FetchFailed")
       /\ UNCHANGED <<current_html, current_url>>
    \/ /\ io' = io \o <<FetchPage(url, TRUE, NextPath), GetHtml(url, FALSE, NextPath)>>
       /\ Raise("FetchFailed")
       /\ UNCHANGED <<current_html, current_url>>
    \/ /\ io' = io \o <<FetchPage(url, TRUE, NextPath), GetHtml(url, TRUE, NextPath)>>
       /\ current_html' = Html(url)
       /\ current_url' = url
       /\ result' = result
       /\ stack' = Loaded

ExecuteOpen ==
    /\ HasNext /\ NextCmd.kind = "Open"
    /\ executed' = Append(executed, NextPath)
    /\ UNCHANGED call
    /\ FetchBoth(NextCmd.url, Advance(stack))
    /\ UNCHANGED <<script, variables>>

\* A slip ClickNoLinks could make: no early return, the body runs on the
\* page that is loaded.
ClickNoLinksRunsBody ==
    /\ result' = result
    /\ stack' = EnterBody(stack, NextPath, NextCmd.commands)
    /\ UNCHANGED <<current_html, current_url, io>>

\* engine/mod.rs 82-85: no link matched; execute_click returns Ok(()) at once.
ClickNoLinks ==
    /\ Continue
    /\ UNCHANGED <<current_html, current_url, io>>

ExecuteClick ==
    /\ HasNext /\ NextCmd.kind = "Click"
    /\ executed' = Append(executed, NextPath)
    /\ UNCHANGED call
    /\ UNCHANGED <<script, variables>>
    /\ \/ /\ current_html = None
          /\ Raise("NoPageLoaded")
          /\ UNCHANGED <<current_html, current_url, io>>
       \/ /\ current_html # None
          /\ ~ValidSelector(NextCmd.selector)
          /\ Raise("InvalidSelector")
          /\ UNCHANGED <<current_html, current_url, io>>
       \/ /\ current_html # None
          /\ ValidSelector(NextCmd.selector)
          /\ extract_attribute(current_html, NextCmd.selector) = <<>>
          /\ ClickNoLinks
       \/ /\ current_html # None
          /\ ValidSelector(NextCmd.selector)
          /\ extract_attribute(current_html, NextCmd.selector) # <<>>
          /\ FetchBoth(FollowedLink(extract_attribute(current_html, NextCmd.selector)),
                       EnterBody(stack, NextPath, NextCmd.commands))

\* engine/mod.rs 109-123: every arm of the match is the empty string.
ExtractedValue(value) ==
    CASE value.kind = "Text" -> ""
      [] value.kind = "Attribute" -> ""
      [] value.kind = "Split" -> ""

\* A slip Insert could make: the map is replaced by the one new binding.
InsertFresh(map, key, val) == [k \in {key} |-> val]

\* HashMap::insert
Insert(map, key, val) ==
    [k \in DOMAIN map \cup {key} |-> IF k = key THEN val ELSE map[k]]

\* A slip ExecuteSet could make: no check that a page is loaded.
ExecuteSetUnchecked ==
    /\ HasNext /\ NextCmd.kind = "Set"
    /\ executed' = Append(executed, NextPath)
    /\ UNCHANGED call
    /\ UNCHANGED <<script, current_html, current_url, io>>
    /\ variables' = Insert(variables, NextCmd.variable, ExtractedValue(NextCmd.value))
    /\ Continue

ExecuteSet ==
    /\ HasNext /\ NextCmd.kind = "Set"
    /\ executed' = Append(executed, NextPath)
    /\ UNCHANGED call
    /\ UNCHANGED <<script, current_html, current_url, io>>
    /\ \/ /\ current_html = None
          /\ Raise("NoPageLoaded")
          /\ UNCHANGED variables
       \/ /\ current_html # None
          /\ variables' = Insert(variables, NextCmd.variable, ExtractedValue(NextCmd.value))
          /\ Continue

RECURSIVE DownloadsOfKind(_, _)
\* A slip Downloads could make: a block takes only the items of its kind.
DownloadsOfKind(all_media, media_blocks) ==
    IF media_blocks = <<>>
    THEN <<>>
    ELSE LET OfKind(item) == item.media_type = Head(media_blocks).media_type
         IN  SelectSeq(filter_media(all_media, Head(media_blocks).filters), OfKind)
             \o DownloadsOfKind(all_media, Tail(media_blocks))

RECURSIVE Downloads(_, _)
\* engine/mod.rs 142-159: the items download_media is called on, in order:
\* block by block, each block's filtered items.
Downloads(all_media, media_blocks) ==
    IF media_blocks = <<>>
    THEN <<>>
    ELSE filter_media(all_media, Head(media_blocks).filters)
         \o Downloads(all_media, Tail(media_blocks))

ExecuteMedia ==
    /\ HasNext /\ NextCmd.kind = "Media"
    /\ executed' = Append(executed, NextPath)
    /\ UNCHANGED call
    /\ UNCHANGED <<script, current_html, current_url, variables>>
    /\ \/ /\ current_html = None \/ current_url = None
          /\ Raise(IF current_html = None THEN "NoPageLoaded" ELSE "NoCurrentUrl")
          /\ UNCHANGED io
       \/ /\ current_html # None /\ current_url # None
          /\ LET plan == Downloads(extract_media_from_html(current_html, current_url),
                                   NextCmd.media_blocks)
                 extracted == Append(io, ExtractMedia(current_html, current_url, NextPath))
             IN  \/ /\ io' = extracted
                              \o [k \in 1..Len(plan) |-> Download(plan[k], TRUE, NextPath)]
                    /\ Continue
                 \/ \E f \in 1..Len(plan) :
                       /\ io' = extracted
                                 \o [k \in 1..f |-> Download(plan[k], k < f, NextPath)]
                       /\ Raise("DownloadFailed")

ExecuteSave ==
    /\ HasNext /\ NextCmd.kind = "Save"
    /\ executed' = Append(executed, NextPath)
    /\ UNCHANGED call
    /\ Continue
    /\ UNCHANGED <<script, current_html, current_url, variables, io>>

ExecuteWait ==
    /\ HasNext /\ NextCmd.kind = "Wait"
    /\ executed' = Append(executed, NextPath)
    /\ UNCHANGED call
    /\ Continue
    /\ UNCHANGED <<script, current_html, current_url, variables, io>>

\* engine/mod.rs 98-102: the body loop of execute_click is over; Ok(()).
ClickReturn ==
    /\ Len(stack) > 1 /\ ~HasNext
    /\ stack' = Tail(stack)
    /\ UNCHANGED call
    /\ UNCHANGED <<script, current_html, current_url, variables, result, executed, io>>

\* engine/mod.rs 29-32: execute's loop is over; Ok(()).
ExecuteReturn ==
    /\ Len(stack) = 1 /\ ~HasNext
    /\ result' = "Ok"
    /\ stack' = <<>>
    /\ UNCHANGED call
    /\ UNCHANGED <<script, current_html, current_url, variables, executed, io>>

\* MslEngine::new(), and execute(script) entered.
Init ==
    /\ \E n \in 0..MaxNodes :
         \E ds \in [1..n -> 0..(MaxNodes - 1)] :
            /\ ValidDepths(ds)
            /\ \E ks \in [1..n -> SingleCommands] :
                  /\ ValidLines(ds, ks)
                  /\ script = BuildScript(ds, ks)
    /\ stack = <<Frame(<<>>, script)>>
    /\ current_html = None
    /\ current_url = None
    /\ variables = <<>>
    /\ result = "Running"
    /\ executed = <<>>
    /\ io = <<>>
    /\ input = <<>>
    /\ output = <<>>

Next ==
    \/ ExecuteOpen
    \/ ExecuteClick
    \/ ExecuteSet
    \/ ExecuteMedia
    \/ ExecuteSave
    \/ ExecuteWait
    \/ ClickReturn
    \/ ExecuteReturn

Spec == Init /\ [][Next]_vars

-----------------------------------------------------------------------------
(* Vocabulary of the properties of the interpreter.                        *)

Failed == result \notin {"Running", "Ok"}
PageDependent == {"Click", "Set", "Media"}
Pending(kinds) == HasNext /\ NextCmd.kind \in kinds
Last(seq) == seq[Len(seq)]
IsPrefix(a, b) == Len(a) <= Len(b) /\ \A k \in 1..Len(a) : a[k] = b[k]
IsProperPrefix(a, b) == Len(a) < Len(b) /\ IsPrefix(a, b)
PageUnchanged == current_html' = current_html /\ current_url' = current_url

RECURSIVE CommandIn(_, _)
\* The command of a command sequence at a path (a sequence of 1-based indices).
CommandIn(cmds, path) ==
    IF Len(path) = 1
    THEN cmds[path[1]]
    ELSE CommandIn(cmds[path[1]].commands, Tail(path))

\* The calls made by the command at `path`.
CallsBy(path) == {k \in 1..Len(io) : io[k].by = path}

\* In the calls `calls`, the command at `path` fetched a page successfully
\* (both requests).
LoadedIn(calls, path) ==
    \E k \in 1..Len(calls) :
        calls[k].by = path /\ calls[k].op = "get_html_content" /\ calls[k].ok

Loaded(path) == LoadedIn(io, path)

RECURSIVE PreOrder(_, _, _)
\* The depth-first pre-order listing of the commands cmds[i..], as paths
\* under `base`, entering the body of exactly the Clicks that followed a link.
PreOrder(cmds, base, i) ==
    IF i > Len(cmds)
    THEN <<>>
    ELSE <<Append(base, i)>>
         \o (IF cmds[i].kind = "Click" /\ Loaded(Append(base, i))
             THEN PreOrder(cmds[i].commands, Append(base, i), 1)
             ELSE <<>>)
         \o PreOrder(cmds, base, i + 1)

-----------------------------------------------------------------------------
\* C1: a Click, Set or Media executed while no page is loaded fails the run
\* with the no-page-loaded error, and that command issues no fetch and no
\* download (and binds nothing).
C1_NoPageLoaded ==
    [][ (Pending(PageDependent) /\ current_html = None)
            => /\ result' = "NoPageLoaded"
               /\ executed' = Append(executed, NextPath)
               /\ io' = io
               /\ variables' = variables ]_vars

\* A Media at the second position failed for want of a page.
C1_Witness ==
    /\ result = "NoPageLoaded"
    /\ Len(executed) = 2
    /\ script[2].kind = "Media"
    /\ io = <<>>

\* C2: fail-fast.  A failed fetch or download is the last call ever made and
\* fails the run; once the run has failed nothing more is executed, fetched,
\* downloaded or bound, and the error execute returns stays that error.
C2_FailFast ==
    /\ [](\A k \in 1..Len(io) : ~io[k].ok => (k = Len(io) /\ Failed))
    /\ [][ Failed => /\ result' = result
                     /\ executed' = executed
                     /\ io' = io
                     /\ variables' = variables
                     /\ PageUnchanged ]_vars

\* The second of the four downloads of a Media failed, with commands of the
\* script still to come.
C2_Witness ==
    /\ result = "DownloadFailed"
    /\ Len(executed) = 2
    /\ Len(script) > 2
    /\ Cardinality(CallsBy(<<2>>)) = 2

\* C3: a page is present only if an Open of this run has succeeded; only a
\* successful Open takes the session from no page to a page.
C3_PageOnlyAfterOpen ==
    /\ [](current_html # None =>
            \E k \in 1..Len(executed) :
                /\ CommandIn(script, executed[k]).kind = "Open"
                /\ Loaded(executed[k]))
    /\ [](current_html = None <=> current_url = None)
    /\ [][ (current_html = None /\ current_html' # None)
              => /\ Pending({"Open"})
                 /\ result' = "Running"
                 /\ LoadedIn(io', NextPath) ]_vars

\* The page of a followed link is loaded (which took an Open before it).
C3_Witness ==
    /\ current_html = "h2"
    /\ result = "Ok"

\* C4: the commands are executed in depth-first pre-order: what has been
\* executed is always an initial part of the pre-order listing, and all of
\* it when execute returns Ok.
C4_DepthFirst ==
    /\ IsPrefix(executed, PreOrder(script, <<>>, 1))
    /\ result = "Ok" => executed = PreOrder(script, <<>>, 1)

\* A Click's body ran between the Click and the command after it.
C4_Witness ==
    /\ result = "Ok"
    /\ executed = << <<1>>, <<2>>, <<2, 1>>, <<3>> >>

\* C5: a Click whose selector matches fetches the first matched link and no
\* other, and when the fetch succeeds the first link's page is the current
\* page, with no body command run yet and the body's first command next.
C5_FirstLinkOnly ==
    [][ ( /\ Pending({"Click"})
          /\ current_html # None
          /\ ValidSelector(NextCmd.selector)
          /\ extract_attribute(current_html, NextCmd.selector) # <<>> )
        => LET links == extract_attribute(current_html, NextCmd.selector)
               path == NextPath
               body == NextCmd.commands
           IN  /\ Len(io') > Len(io)
               /\ \A k \in (Len(io) + 1)..Len(io') :
                     /\ io'[k].op \in {"fetch_page", "get_html_content"}
                     /\ io'[k].url = links[1]
                     /\ io'[k].by = path
               /\ executed' = Append(executed, path)
               /\ result' = "Running" =>
                     /\ current_url' = links[1]
                     /\ current_html' = Html(links[1])
                     /\ body # <<>> => (HasNext' /\ NextPath' = Append(path, 1))
               /\ result' # "Running" => (result' = "FetchFailed" /\ PageUnchanged)
      ]_vars

\* A link was followed from the page of u1 (links u2, u3) and the body's
\* first command is about to run.
C5_Witness ==
    /\ HasNext
    /\ Top.base # <<>>
    /\ Top.i = 1
    /\ current_url = "u2"
    /\ Len(extract_attribute("h1", "a")) > 1

\* C6: a Click whose selector matches nothing succeeds, fetches nothing, runs
\* none of its body, changes neither the page nor a variable, and the next
\* command of the enclosing sequence is next.
C6_ClickNoLinks ==
    /\ [][ ( /\ Pending({"Click"})
             /\ current_html # None
             /\ ValidSelector(NextCmd.selector)
             /\ extract_attribute(current_html, NextCmd.selector) = <<>> )
           => /\ result' = "Running"
              /\ io' = io
              /\ PageUnchanged
              /\ variables' = variables
              /\ executed' = Append(executed, NextPath)
              /\ Len(stack') = Len(stack)
              /\ Top'.base = Top.base
              /\ Top'.cmds = Top.cmds
              /\ Top'.i = Top.i + 1 ]_vars
    /\ [](\A k \in 1..Len(executed) :
            (CommandIn(script, executed[k]).kind = "Click" /\ ~Loaded(executed[k]))
               => \A j \in 1..Len(executed) : ~IsProperPrefix(executed[k], executed[j]))

\* A Click with a body matched nothing and the command after it has run.
C6_Witness ==
    /\ Len(executed) = 3
    /\ script[2].kind = "Click"
    /\ script[2].commands # <<>>
    /\ CallsBy(<<2>>) = {}
    /\ executed[3] = <<3>>
    /\ ~Failed

\* C7: Media, Save and Wait leave page and variables alone (Save and Wait
\* succeed without a page too); Open and Click never change a variable;
\* Set changes the binding of its name only, to the extracted value, and not
\* the page; the loops' returns change nothing of the session.
C7_Frame ==
    [][ /\ Pending({"Media", "Save", "Wait"}) => (PageUnchanged /\ variables' = variables)
        /\ Pending({"Save", "Wait"}) => result' = "Running"
        /\ Pending({"Open", "Click"}) => variables' = variables
        /\ Pending({"Set"}) =>
              /\ PageUnchanged
              /\ DOMAIN variables' \subseteq DOMAIN variables \cup {NextCmd.variable}
              /\ \A n \in DOMAIN variables \ {NextCmd.variable} :
                    n \in DOMAIN variables' /\ variables'[n] = variables[n]
              /\ result' = "Running" =>
                    /\ NextCmd.variable \in DOMAIN variables'
                    /\ variables'[NextCmd.variable] = ExtractedValue(NextCmd.value)
        /\ ~HasNext => (PageUnchanged /\ variables' = variables) ]_vars

\* Two variables are bound, the second Set having kept the first's binding.
C7_Witness ==
    /\ DOMAIN variables = {"x", "y"}
    /\ Len(executed) = 4
    /\ CommandIn(script, executed[4]).kind \in {"Save", "Wait"}
    /\ result = "Ok"

-----------------------------------------------------------------------------
(* Scraper::filter_media on its own: a list of media items and a filter    *)
(* list are chosen, then filter_media is applied to them.                  *)

\* The interpreter does not run in this specification.
EngineIdle ==
    /\ script = <<>>
    /\ stack = <<>>
    /\ current_html = None
    /\ current_url = None
    /\ variables = <<>>
    /\ result = "Idle"
    /\ executed = <<>>
    /\ io = <<>>

\* Media URLs: c/a.j, c/a.J, d/b.g and the bare c.
FilterUrls ==
    { <<"c", "/", "a", ".", "j">>,
      <<"c", "/", "a", ".", "J">>,
      <<"d", "/", "b", ".", "g">>,
      <<"c">> }

\* Values a where filter compares with: c, c/a.j and x.
FilterValues == { <<"c">>, <<"c", "/", "a", ".", "j">>, <<"x">> }

\* Extension lists: j; j, g; J; and the empty list.
ExtensionLists == { << <<"j">> >>, << <<"j">>, <<"g">> >>, << <<"J">> >>, << >> }

\* The operators parse_where_filter accepts (parser/mod.rs 240).
Operators == {"~", "=", "!="}

\* The filters of a block: where filters on src, and extensions filters.
Filters ==
    {Where("src", op, v) : op \in Operators, v \in FilterValues}
        \cup {Extensions(l) : l \in ExtensionLists}

FilterItems == {MediaItem(u, "Image") : u \in FilterUrls}

InitFilter ==
    /\ EngineIdle
    /\ \E n \in 0..MaxMedia, m \in 0..MaxFilters :
          \E ms \in [1..n -> FilterItems], fs \in [1..m -> Filters] :
             input = [media |-> ms, filters |-> fs]
    /\ output = <<>>

\* The call filter_media(media, filters).
FilterMedia ==
    /\ output = <<>>
    /\ output' = <<filter_media(input.media, input.filters)>>
    /\ UNCHANGED <<engine, input>>

NextFilter == FilterMedia

SpecFilter == InitFilter /\ [][NextFilter]_vars

-----------------------------------------------------------------------------
(* What the filters are documented to mean.                                *)

\* A where filter on src: substring, equality, inequality.
WhereHolds(url, operator, value) ==
    CASE operator = "~" -> Contains(url, value)
      [] operator = "=" -> url = value
      [] operator = "!=" -> url # value

\* An extensions filter: the URL ends with one of the listed extensions.
ExtensionsHolds(url, extensions) ==
    \E e \in 1..Len(extensions) : EndsWith(url, extensions[e])

FilterHolds(item, filter) ==
    IF filter.kind = "Where"
    THEN WhereHolds(item.url, filter.operator, filter.value)
    ELSE ExtensionsHolds(item.url, filter.extensions)

AllHold(item, filter_list) ==
    \A f \in 1..Len(filter_list) : FilterHolds(item, filter_list[f])

\* The items of `media_items` that satisfy `filter_list`, in their order.
Selected(media_items, filter_list) ==
    LET Keep(item) == AllHold(item, filter_list)
    IN  SelectSeq(media_items, Keep)

\* C8: with one where filter on src, an item passes exactly when "~" and the
\* URL contains the value, "=" and it equals the value, "!=" and it differs.
C8_WhereOperators ==
    ( /\ output # <<>>
      /\ Len(input.filters) = 1
      /\ input.filters[1].kind = "Where"
      /\ input.filters[1].field = "src" )
    => LET f == input.filters[1]
           Keep(item) == WhereHolds(item.url, f.operator, f.value)
       IN  output[1] = SelectSeq(input.media, Keep)

\* C8 for the operators "~" and "=" alone.
C8_ContainsAndEquals ==
    ( /\ output # <<>>
      /\ Len(input.filters) = 1
      /\ input.filters[1].kind = "Where"
      /\ input.filters[1].field = "src"
      /\ input.filters[1].operator # "!=" )
    => LET f == input.filters[1]
           Keep(item) == WhereHolds(item.url, f.operator, f.value)
       IN  output[1] = SelectSeq(input.media, Keep)

\* C9: filter_media selects exactly the items for which every filter of the
\* list holds, in their order (so every item when the list is empty).
C9_Conjunction ==
    output # <<>> => output[1] = Selected(input.media, input.filters)

\* C9 for the filter lists with no "!=" filter.
C9_ConjunctionWithoutNe ==
    ( /\ output # <<>>
      /\ \A f \in 1..Len(input.filters) :
            input.filters[f].kind = "Where" => input.filters[f].operator # "!=" )
    => output[1] = Selected(input.media, input.filters)

-----------------------------------------------------------------------------
(* The parser (parser/mod.rs): nom's combinators on character sequences.   *)
(* A parser takes the input and gives Ok(rest, val) or Err.                *)

Ok(rest, val) == [ok |-> TRUE, rest |-> rest, val |-> val]
Err == [ok |-> FALSE, rest |-> <<>>, val |-> <<>>]

Drop(s, n) == SubSeq(s, n + 1, Len(s))
Take(s, n) == SubSeq(s, 1, n)

\* nom's multispace: space, tab, carriage return, line feed.
Spaces == {" ", "\t", "\r", "\n"}
Digits == {"0", "1", "2", "3", "4", "5", "6", "7", "8", "9"}
IsSpace(c) == c \in Spaces
IsDigit(c) == c \in Digits

\* The length of the longest initial part of s with all characters in `chars`
\* (keep = TRUE) or none of them in `chars` (keep = FALSE).
WhileLen(s, chars, keep) ==
    CHOOSE n \in 0..Len(s) :
        /\ \A k \in 1..n : (s[k] \in chars) = keep
        /\ n = Len(s) \/ (s[n + 1] \in chars) # keep

\* nom's take_while with the predicate "is one of chars": never fails.
take_while_in(s, chars) ==
    Ok(Drop(s, WhileLen(s, chars, TRUE)), Take(s, WhileLen(s, chars, TRUE)))

\* nom's take_while with the predicate "is none of chars": never fails.
take_while_not(s, chars) ==
    Ok(Drop(s, WhileLen(s, chars, FALSE)), Take(s, WhileLen(s, chars, FALSE)))

multispace0(s) == take_while_in(s, Spaces)

multispace1(s) == IF WhileLen(s, Spaces, TRUE) = 0 THEN Err ELSE multispace0(s)

tag(t, s) == IF IsPrefix(t, s) THEN Ok(Drop(s, Len(t)), t) ELSE Err

char(c, s) == IF s # <<>> /\ s[1] = c THEN Ok(Tail(s), c) ELSE Err

\* opt(char(c)): never fails.
opt_char(c, s) == IF char(c, s).ok THEN char(c, s) ELSE Ok(s, <<>>)

\* alt((a, b)) on the results of the two parsers: the first that parses.
alt(a, b) == IF a.ok THEN a ELSE b

\* many0(item) at input s, given the item's result r at s and the result
\* `more` of many0(item) at r.rest: it ends, keeping s, when the item does not
\* parse; an item that parses without consuming is an error.
many0(s, r, more) ==
    IF ~r.ok THEN Ok(s, <<>>) ELSE
    IF Len(r.rest) = Len(s) THEN Err ELSE
    IF ~more.ok THEN Err ELSE Ok(more.rest, <<r.val>> \o more.val)

\* terminated(parser, opt(char('\n'))) on the parser's result.
opt_newline_after(r) == IF ~r.ok THEN Err ELSE Ok(opt_char("\n", r.rest).rest, r.val)

\* take_until(t): the input up to the first occurrence of t, which must occur.
take_until(t, s) ==
    IF Contains(s, t)
    THEN LET n == CHOOSE i \in 0..(Len(s) - Len(t)) :
                     /\ IsPrefix(t, Drop(s, i))
                     /\ \A j \in 0..(i - 1) : ~IsPrefix(t, Drop(s, j))
         IN  Ok(Drop(s, n), Take(s, n))
    ELSE Err

\* delimited(char('"'), take_until("\""), char('"'))
quoted(s) ==
    LET r1 == char("\"", s) IN
    IF ~r1.ok THEN Err ELSE
    LET r2 == take_until(<<"\"">>, r1.rest) IN
    IF ~r2.ok THEN Err ELSE
    LET r3 == char("\"", r2.rest) IN
    IF ~r3.ok THEN Err ELSE Ok(r3.rest, r2.val)

RECURSIVE DigitsValue(_)
\* The number a sequence of decimal digits writes.
DigitsValue(ds) ==
    IF ds = <<>>
    THEN 0
    ELSE 10 * DigitsValue(Take(ds, Len(ds) - 1))
         + (CHOOSE d \in 0..9 : <<"0", "1", "2", "3", "4", "5", "6", "7", "8", "9">>[d + 1]
                                    = ds[Len(ds)])

\* str::parse::<u64>().unwrap_or(default), for the digit strings of the model
\* (all far below 2^64): no digits, or a character that is none, is an error.
ParseU64Or(str, default) ==
    IF str # <<>> /\ \A k \in 1..Len(str) : IsDigit(str[k])
    THEN DigitsValue(str)
    ELSE default

\* str::parse::<i32>().unwrap_or(default), for the short strings of the model:
\* an optional sign, then digits.
ParseI32Or(str, default) ==
    LET body == IF str # <<>> /\ str[1] \in {"-", "+"} THEN Tail(str) ELSE str
    IN  IF body # <<>> /\ \A k \in 1..Len(body) : IsDigit(body[k])
        THEN IF str[1] = "-" THEN 0 - DigitsValue(body) ELSE DigitsValue(body)
        ELSE default

\* The keywords and punctuation of the language, as character sequences.
KwOpen == <<"o", "p", "e", "n">>
KwClick == <<"c", "l", "i", "c", "k">>
KwSet == <<"s", "e", "t">>
KwMedia == <<"m", "e", "d", "i", "a">>
KwSave == <<"s", "a", "v", "e">>
KwTo == <<"t", "o">>
KwWait == <<"w", "a", "i", "t">>
KwText == <<"t", "e", "x", "t">>
KwAttr == <<"a", "t", "t", "r">>
KwSplit == <<"s", "p", "l", "i", "t">>
KwImage == <<"i", "m", "a", "g", "e">>
KwVideo == <<"v", "i", "d", "e", "o">>
KwAudio == <<"a", "u", "d", "i", "o">>
KwWhere == <<"w", "h", "e", "r", "e">>
KwExtensions == <<"e", "x", "t", "e", "n", "s", "i", "o", "n", "s">>
Quote == <<"\"">>

parse_open(s) ==
    LET r1 == tag(KwOpen, s) IN
    IF ~r1.ok THEN Err ELSE
    LET r2 == multispace1(r1.rest) IN
    IF ~r2.ok THEN Err ELSE
    LET r3 == quoted(r2.rest) IN
    IF ~r3.ok THEN Err ELSE
    Ok(multispace0(r3.rest).rest, Open(r3.val))

parse_text_value(s) ==
    IF tag(KwText, s).ok THEN Ok(tag(KwText, s).rest, Text) ELSE Err

\* delimited(char('('), char('"'), char(')')): the three characters ( " )
paren_quote_paren(s) ==
    LET r1 == char("(", s) IN
    IF ~r1.ok THEN Err ELSE
    LET r2 == char("\"", r1.rest) IN
    IF ~r2.ok THEN Err ELSE
    char(")", r2.rest)

\* Lines 151, 163, 170: take_until("\"") is applied to the string literal
\* `("`, not to the input; what is left of the literal becomes the input.
take_until_of_literal == take_until(Quote, <<"(", "\"">>)

parse_attribute_value(s) ==
    LET r1 == tag(KwAttr, s) IN
    IF ~r1.ok THEN Err ELSE
    LET r2 == paren_quote_paren(r1.rest) IN
    IF ~r2.ok THEN Err ELSE
    LET r3 == take_until_of_literal IN
    IF ~r3.ok THEN Err ELSE
    LET r4 == char("\"", r3.rest) IN
    IF ~r4.ok THEN Err ELSE
    LET r5 == char(")", r4.rest) IN
    IF ~r5.ok THEN Err ELSE
    Ok(r5.rest, Attribute(r3.val))

parse_split_value(s) ==
    LET r1 == tag(KwSplit, s) IN
    IF ~r1.ok THEN Err ELSE
    LET r2 == paren_quote_paren(r1.rest) IN
    IF ~r2.ok THEN Err ELSE
    LET r3 == take_until_of_literal IN
    IF ~r3.ok THEN Err ELSE
    LET r4 == char("\"", r3.rest) IN
    IF ~r4.ok THEN Err ELSE
    LET r5 == char(")", r4.rest) IN
    IF ~r5.ok THEN Err ELSE
    LET r6 == char(".", r5.rest) IN
    IF ~r6.ok THEN Err ELSE
    LET r7 == tag(KwSplit, r6.rest) IN
    IF ~r7.ok THEN Err ELSE
    LET r8 == char("(", r7.rest) IN
    IF ~r8.ok THEN Err ELSE
    LET r9 == char("\"", r8.rest) IN
    IF ~r9.ok THEN Err ELSE
    LET r10 == take_until_of_literal IN
    IF ~r10.ok THEN Err ELSE
    LET r11 == char("\"", r10.rest) IN
    IF ~r11.ok THEN Err ELSE
    LET r12 == char(")", r11.rest) IN
    IF ~r12.ok THEN Err ELSE
    LET r13 == char("[", r12.rest) IN
    IF ~r13.ok THEN Err ELSE
    LET r14 == take_while_not(r13.rest, {"]"}) IN
    LET r15 == char("]", r14.rest) IN
    IF ~r15.ok THEN Err ELSE
    Ok(r15.rest, Split(r10.val, ParseI32Or(r14.val, 0 - 1)))

\* alt((parse_text_value, parse_attribute_value, parse_split_value))
parse_value(s) ==
    alt(parse_text_value(s), alt(parse_attribute_value(s), parse_split_value(s)))

\* Ok((input, MslCommand::Set { variable, value })) of the parsed value.
set_command(variable, r) == IF ~r.ok THEN Err ELSE Ok(r.rest, Set(variable, r.val))

parse_set(s) ==
    LET r1 == tag(KwSet, s) IN
    IF ~r1.ok THEN Err ELSE
    LET r2 == multispace1(r1.rest) IN
    IF ~r2.ok THEN Err ELSE
    LET r3 == take_while_not(r2.rest, {" ", "="}) IN
    LET r4 == multispace0(r3.rest) IN
    LET r5 == char("=", r4.rest) IN
    IF ~r5.ok THEN Err ELSE
    LET r6 == multispace0(r5.rest) IN
    set_command(r3.val, parse_value(r6.rest))

parse_media_type(s) ==
    IF tag(KwImage, s).ok THEN Ok(tag(KwImage, s).rest, "Image")
    ELSE IF tag(KwVideo, s).ok THEN Ok(tag(KwVideo, s).rest, "Video")
    ELSE IF tag(KwAudio, s).ok THEN Ok(tag(KwAudio, s).rest, "Audio")
    ELSE Err

\* alt((tag("~"), tag("="), tag("!=")))
parse_operator(s) ==
    IF tag(<<"~">>, s).ok THEN Ok(tag(<<"~">>, s).rest, "~")
    ELSE IF tag(<<"=">>, s).ok THEN Ok(tag(<<"=">>, s).rest, "=")
    ELSE IF tag(<<"!", "=">>, s).ok THEN Ok(tag(<<"!", "=">>, s).rest, "!=")
    ELSE Err

parse_where_filter(s) ==
    LET r1 == tag(KwWhere, s) IN
    IF ~r1.ok THEN Err ELSE
    LET r2 == multispace1(r1.rest) IN
    IF ~r2.ok THEN Err ELSE
    LET r3 == take_while_not(r2.rest, {" "}) IN
    LET r4 == multispace0(r3.rest) IN
    LET r5 == parse_operator(r4.rest) IN
    IF ~r5.ok THEN Err ELSE
    LET r6 == multispace0(r5.rest) IN
    LET r7 == quoted(r6.rest) IN
    IF ~r7.ok THEN Err ELSE
    Ok(opt_char("\n", r7.rest).rest, Where(r3.val, r5.val, r7.val))

\* preceded(opt(multispace0), take_while): an extension; never fails.
extension_item(s) == take_while_not(multispace0(s).rest, {" ", "\n", ","})

\* preceded(opt(multispace0), char(',')): the separator.
extension_separator(s) == char(",", multispace0(s).rest)

RECURSIVE extension_list_tail(_)
\* The loop of separated_list0: separator, item, again; it ends, keeping the
\* input before the separator, when the separator does not parse.
extension_list_tail(s) ==
    LET sep == extension_separator(s) IN
    IF ~sep.ok THEN Ok(s, <<>>) ELSE
    LET item == extension_item(sep.rest) IN
    LET more == extension_list_tail(item.rest) IN
    Ok(more.rest, <<item.val>> \o more.val)

\* separated_list0(separator, item)
extension_list(s) ==
    LET first == extension_item(s) IN
    LET more == extension_list_tail(first.rest) IN
    Ok(more.rest, <<first.val>> \o more.val)

parse_extensions_filter(s) ==
    LET r1 == tag(KwExtensions, s) IN
    IF ~r1.ok THEN Err ELSE
    LET r2 == multispace1(r1.rest) IN
    IF ~r2.ok THEN Err ELSE
    LET r3 == extension_list(r2.rest) IN
    Ok(opt_char("\n", r3.rest).rest, Extensions(r3.val))

parse_media_filter(s) ==
    LET r1 == multispace0(s) IN
    opt_newline_after(alt(parse_where_filter(r1.rest), parse_extensions_filter(r1.rest)))

RECURSIVE many0_media_filter(_)
\* many0(parse_media_filter)
many0_media_filter(s) ==
    many0(s, parse_media_filter(s), many0_media_filter(parse_media_filter(s).rest))

\* Ok((input, MediaBlock { media_type, filters, save_path: None })) of the
\* parsed filters, after the optional line feed.
media_block(media_type, r) ==
    IF ~r.ok THEN Err ELSE Ok(opt_char("\n", r.rest).rest, MediaBlock(media_type, r.val))

parse_media_block(s) ==
    LET r1 == multispace0(s) IN
    LET r2 == parse_media_type(r1.rest) IN
    IF ~r2.ok THEN Err ELSE
    LET r3 == multispace0(r2.rest) IN
    LET r4 == opt_char("\n", r3.rest) IN
    media_block(r2.val, many0_media_filter(r4.rest))

RECURSIVE many0_media_block(_)
\* many0(parse_media_block)
many0_media_block(s) ==
    many0(s, parse_media_block(s), many0_media_block(parse_media_block(s).rest))

\* Ok((input, MslCommand::Media { media_blocks })) of the parsed blocks, after
\* the optional line feed.
media_command(r) ==
    IF ~r.ok THEN Err ELSE Ok(opt_char("\n", r.rest).rest, Media(r.val))

parse_media(s) ==
    LET r1 == tag(KwMedia, s) IN
    IF ~r1.ok THEN Err ELSE
    LET r2 == multispace0(r1.rest) IN
    LET r3 == opt_char("\n", r2.rest) IN
    media_command(many0_media_block(r3.rest))

parse_save(s) ==
    LET r1 == tag(KwSave, s) IN
    IF ~r1.ok THEN Err ELSE
    LET r2 == multispace1(r1.rest) IN
    IF ~r2.ok THEN Err ELSE
    LET r3 == tag(KwTo, r2.rest) IN
    IF ~r3.ok THEN Err ELSE
    LET r4 == multispace1(r3.rest) IN
    IF ~r4.ok THEN Err ELSE
    LET r5 == quoted(r4.rest) IN
    IF ~r5.ok THEN Err ELSE
    Ok(r5.rest, Save(r5.val))

parse_wait(s) ==
    LET r1 == tag(KwWait, s) IN
    IF ~r1.ok THEN Err ELSE
    LET r2 == multispace1(r1.rest) IN
    IF ~r2.ok THEN Err ELSE
    LET r3 == take_while_in(r2.rest, Digits) IN
    Ok(multispace0(r3.rest).rest, Wait(ParseU64Or(r3.val, 1)))

RECURSIVE parse_command(_)

\* parse_indented_command: multispace1 twice ("double indent"), then a command.
parse_indented_command(s) ==
    LET r1 == multispace1(s) IN
    IF ~r1.ok THEN Err ELSE
    LET r2 == multispace1(r1.rest) IN
    IF ~r2.ok THEN Err ELSE
    parse_command(r2.rest)

RECURSIVE many0_indented_command(_)
\* many0(parse_indented_command)
many0_indented_command(s) ==
    many0(s, parse_indented_command(s),
          many0_indented_command(parse_indented_command(s).rest))

\* Ok((input, MslCommand::Click { selector, commands })) of the parsed body.
click_command(selector, r) == IF ~r.ok THEN Err ELSE Ok(r.rest, Click(selector, r.val))

parse_click(s) ==
    LET r1 == tag(KwClick, s) IN
    IF ~r1.ok THEN Err ELSE
    LET r2 == multispace1(r1.rest) IN
    IF ~r2.ok THEN Err ELSE
    LET r3 == quoted(r2.rest) IN
    IF ~r3.ok THEN Err ELSE
    LET r4 == multispace0(r3.rest) IN
    LET r5 == opt_char("\n", r4.rest) IN
    click_command(r3.val, many0_indented_command(r5.rest))

\* multispace0, then alt((open, click, set, media, save, wait))
parse_command(s) ==
    LET i == multispace0(s).rest
    IN  alt(parse_open(i),
        alt(parse_click(i),
        alt(parse_set(i),
        alt(parse_media(i),
        alt(parse_save(i), parse_wait(i))))))

RECURSIVE many0_command(_)
\* many0(parse_command)
many0_command(s) ==
    many0(s, parse_command(s), many0_command(parse_command(s).rest))

\* What parse_script returns: Ok(MslScript { commands }), or
\* Err(MslError::ParseError(..)) with the text the message carries.
ScriptOk(commands) == [ok |-> TRUE, commands |-> commands, unparsed |-> <<>>]
ParseError(unparsed) == [ok |-> FALSE, commands |-> <<>>, unparsed |-> unparsed]

\* remaining.trim().is_empty()
IsBlank(s) == \A k \in 1..Len(s) : IsSpace(s[k])

\* A slip script_result could make: the commands parsed so far are returned
\* whatever is left of the input.
script_result_partial(r) ==
    IF ~r.ok THEN ParseError(<<>>) ELSE ScriptOk(r.val)

\* Lines 68-74 on the result of many0(parse_command).
script_result(r) ==
    IF ~r.ok THEN ParseError(<<>>)
    ELSE IF ~IsBlank(r.rest) THEN ParseError(r.rest)
    ELSE ScriptOk(r.val)

parse_script(s) == script_result(many0_command(s))

-----------------------------------------------------------------------------
(* parse_script on its own: a script text is written, one command a line,  *)
(* nested commands under their click line and indented two spaces a level; *)
(* then parse_script is applied to it.                                     *)

\* The lines of the texts, each with the command it writes.
ScriptLines ==
    { [text |-> KwOpen \o <<" ", "\"", "u", "\"">>, cmd |-> Open(<<"u">>)],
      [text |-> KwClick \o <<" ", "\"", "a", "\"">>, cmd |-> Click(<<"a">>, <<>>)],
      [text |-> KwSet \o <<" ", "x", " ", "=", " ">> \o KwText, cmd |-> Set(<<"x">>, Text)],
      [text |-> KwWait \o <<" ", "1">>, cmd |-> Wait(1)] }

\* Two spaces for each level of nesting.
Indent(depth) == [k \in 1..(depth + depth) |-> " "]

RECURSIVE RenderFrom(_, _, _)
\* The text of the lines i.. : indentation, the line, a line feed.
RenderFrom(ds, ls, i) ==
    IF i > Len(ds)
    THEN <<>>
    ELSE Indent(ds[i]) \o ls[i].text \o <<"\n">> \o RenderFrom(ds, ls, i + 1)

\* The script the lines write: each line's command, nested by indentation.
Written(ds, ls) == BuildScript(ds, [i \in 1..Len(ds) |-> ls[i].cmd])

InitParse ==
    /\ EngineIdle
    /\ \E n \in 0..MaxLines :
         \E ds \in [1..n -> 0..(MaxLines - 1)] :
            /\ ValidDepths(ds)
            /\ \E ls \in [1..n -> ScriptLines] :
                  /\ ValidLines(ds, [i \in 1..n |-> ls[i].cmd])
                  /\ input = [text |-> RenderFrom(ds, ls, 1),
                              depths |-> ds,
                              written |-> Written(ds, ls)]
    /\ output = <<>>

\* The call parse_script(text).
ParseScript ==
    /\ output = <<>>
    /\ output' = <<parse_script(input.text)>>
    /\ UNCHANGED <<engine, input>>

NextParse == ParseScript

SpecParse == InitParse /\ [][NextParse]_vars

\* C10: a text whose nested commands are indented two spaces a level under
\* their click line parses into the script it writes: each Click's body is
\* the commands written under it, in order, to any depth.
C10_NestedClick ==
    output # <<>> => output[1] = ScriptOk(input.written)

\* C10 for the texts with no nested line.
C10_FlatScript ==
    (output # <<>> /\ \A i \in 1..Len(input.depths) : input.depths[i] = 0)
        => output[1] = ScriptOk(input.written)

-----------------------------------------------------------------------------
(* parse_script on script texts of top-level commands: every command form  *)
(* of the grammar, one a line, then possibly text that is no command.      *)

\* The largest number of command lines in such a text.
MaxCommands == 2

SetX == KwSet \o <<" ", "x", " ", "=", " ">>
SplitAB ==
    KwSplit \o <<"(", "\"", "a", "\"", ")", ".">> \o KwSplit \o <<"(", "\"", "b", "\"", ")">>
MediaText ==
    KwMedia \o <<"\n", " ", " ">> \o KwImage
        \o <<"\n", " ", " ", " ", " ">> \o KwWhere \o <<" ", "s", "r", "c", " ", "!", "=", " ">>
        \o <<"\"", "c", "\"">>
        \o <<"\n", " ", " ", " ", " ">> \o KwExtensions \o <<" ", "j", ",", " ", "g">>
        \o <<"\n", " ", " ">> \o KwVideo

\* The command lines: the text, the form of the grammar it is written in, and
\* the command the grammar gives it.
CommandLines ==
    { [form |-> "Open", text |-> KwOpen \o <<" ", "\"", "u", "\"">>, cmd |-> Open(<<"u">>)],
      [form |-> "Click", text |-> KwClick \o <<" ", "\"", "a", "\"">>,
       cmd |-> Click(<<"a">>, <<>>)],
      [form |-> "SetText", text |-> SetX \o KwText, cmd |-> Set(<<"x">>, Text)],
      [form |-> "SetAttr", text |-> SetX \o KwAttr \o <<"(", "\"", "n", "\"", ")">>,
       cmd |-> Set(<<"x">>, Attribute(<<"n">>))],
      [form |-> "SetSplit", text |-> SetX \o SplitAB \o <<"[", "2", "]">>,
       cmd |-> Set(<<"x">>, Split(<<"b">>, 2))],
      [form |-> "SetSplitBadIndex", text |-> SetX \o SplitAB \o <<"[", "z", "]">>,
       cmd |-> Set(<<"x">>, Split(<<"b">>, 0 - 1))],
      [form |-> "Media", text |-> MediaText,
       cmd |-> Media(<< MediaBlock("Image", << Where(<<"s", "r", "c">>, "!=", <<"c">>),
                                               Extensions(<< <<"j">>, <<"g">> >>) >>),
                        MediaBlock("Video", << >>) >>)],
      [form |-> "Save", text |-> KwSave \o <<" ">> \o KwTo \o <<" ", "\"", "p", "\"">>,
       cmd |-> Save(<<"p">>)],
      [form |-> "Wait", text |-> KwWait \o <<" ", "1", "2">>, cmd |-> Wait(12)],
      [form |-> "WaitNoNumeral", text |-> KwWait, cmd |-> Wait(1)],
      [form |-> "WaitBadNumeral", text |-> KwWait \o <<" ", "a", "b", "c">>, cmd |-> Wait(1)] }

\* What may follow the last command line: nothing, white space, or text that
\* begins no command.
Trailers == { <<>>, <<" ", "\n">>, <<"x">>, <<"x", " ", "y", "\n">> }

RECURSIVE JoinLines(_, _)
\* The text of the lines i.. : each line and a line feed.
JoinLines(ls, i) ==
    IF i > Len(ls) THEN <<>> ELSE ls[i].text \o <<"\n">> \o JoinLines(ls, i + 1)

InitParseText ==
    /\ EngineIdle
    /\ \E n \in 0..MaxCommands :
         \E ls \in [1..n -> CommandLines] :
            \E t \in Trailers :
               input = [text |-> JoinLines(ls, 1) \o t, lines |-> ls, trailer |-> t]
    /\ output = <<>>

SpecParseText == InitParseText /\ [][NextParse]_vars

\* The forms the grammar calls well-formed commands.
WellFormed ==
    {"Open", "Click", "SetText", "SetAttr", "SetSplit", "Media", "Save", "Wait"}

\* The text is one command line of one of the forms, and nothing else.
OneLine(forms) ==
    Len(input.lines) = 1 /\ input.lines[1].form \in forms /\ input.trailer = <<>>

\* C11: a wait whose argument is no unsigned integer parses; the script is
\* the one command Wait with seconds 1.
C11_WaitDefault ==
    (output # <<>> /\ OneLine({"WaitNoNumeral", "WaitBadNumeral"}))
        => output[1] = ScriptOk(<<Wait(1)>>)

\* C11 for a wait with no argument at all.
C11_WaitNoNumeral ==
    (output # <<>> /\ OneLine({"WaitNoNumeral"})) => output[1] = ScriptOk(<<Wait(1)>>)

\* Each line of the text, on its own, is a script of one command.
EachLineParses ==
    \A i \in 1..Len(input.lines) : parse_script(input.lines[i].text \o <<"\n">>).ok

\* C12: parse_script gives the commands only if nothing but white space is
\* left after the longest leading sequence of commands; otherwise it gives a
\* ParseError that carries what is left, and no command at all.  So text
\* that is no command after the last line always fails the whole script, and
\* lines that parse, followed by white space only, give a script.
C12_AllOrNothing ==
    output # <<>> =>
        LET r == many0_command(input.text)
        IN  /\ IsBlank(r.rest) => output[1] = ScriptOk(r.val)
            /\ ~IsBlank(r.rest) => output[1] = ParseError(r.rest)
            /\ ~IsBlank(input.trailer)
                  => /\ ~output[1].ok
                     /\ output[1].commands = <<>>
                     /\ EndsWith(output[1].unparsed, input.trailer)
            /\ (IsBlank(input.trailer) /\ EachLineParses) => output[1].ok

\* Two commands parse and the text x is left: the result is the ParseError
\* carrying x, not the two commands.
C12_Witness ==
    /\ output # <<>>
    /\ Len(input.lines) = 2
    /\ input.lines[1].form = "Open"
    /\ input.lines[2].form = "Wait"
    /\ input.trailer = <<"x">>
    /\ output[1] = ParseError(<<"x">>)

\* The result is the script of one Set command of x with the value `value`,
\* the delimiter of a Split left open.
IsSetOf(res, value) ==
    /\ res.ok
    /\ Len(res.commands) = 1
    /\ res.commands[1].kind = "Set"
    /\ res.commands[1].variable = <<"x">>
    /\ res.commands[1].value.kind = value.kind
    /\ value.kind = "Attribute" => res.commands[1].value.name = value.name
    /\ value.kind = "Split" => res.commands[1].value.index = value.index

\* C13: each form of value parses inside a set command: text to Text,
\* attr("n") to Attribute with name n, split("a").split("b")[i] to Split with
\* index i, or with index -1 when i is no integer.
C13_ValueForms ==
    (output # <<>> /\ OneLine({"SetText", "SetAttr", "SetSplit", "SetSplitBadIndex"}))
        => IsSetOf(output[1], input.lines[1].cmd.value)

\* C13 for the form text.
C13_TextValue ==
    (output # <<>> /\ OneLine({"SetText"})) => IsSetOf(output[1], Text)

\* The result is a script with one command for each line of the text, of the
\* line's kind, in the order of the lines.
OneCommandPerLine(res) ==
    /\ res.ok
    /\ Len(res.commands) = Len(input.lines)
    /\ \A i \in 1..Len(input.lines) : res.commands[i].kind = input.lines[i].cmd.kind

\* Every line is of one of the forms, and only white space follows.
LinesOf(forms) ==
    /\ \A i \in 1..Len(input.lines) : input.lines[i].form \in forms
    /\ IsBlank(input.trailer)

\* C14: a text of well-formed top-level commands parses into a script with
\* as many commands as the text has command keywords, in the same order.
C14_CommandCount ==
    (output # <<>> /\ LinesOf(WellFormed)) => OneCommandPerLine(output[1])

\* C14 for the texts with no attr or split value.
C14_CommandCountTextValues ==
    (output # <<>> /\ LinesOf(WellFormed \ {"SetAttr", "SetSplit"}))
        => OneCommandPerLine(output[1])

-----------------------------------------------------------------------------
(* The engine on scripts of one Media command, alone or after an Open:     *)
(* blocks of every kind with every sort of filter list.                    *)

\* The largest number of blocks in a Media command.
MaxBlocks == 2

MediaTypes == {"Image", "Video", "Audio"}

\* The filter lists of the blocks: none; extensions j; src ~ "c";
\* src != "c/b".
BlockFilterLists ==
    { << >>,
      << Extensions(<< <<"j">> >>) >>,
      << Where("src", "~", <<"c">>) >>,
      << Where("src", "!=", <<"c", "/", "b">>) >> }

MediaBlocks == {MediaBlock(t, fs) : t \in MediaTypes, fs \in BlockFilterLists}

\* MslEngine::new(), and execute(script) entered.
InitMedia ==
    /\ \E n \in 0..MaxBlocks :
         \E bs \in [1..n -> MediaBlocks] :
            script \in { <<Media(bs)>>, <<Open("u1"), Media(bs)>>, <<Open("u2"), Media(bs)>> }
    /\ stack = <<Frame(<<>>, script)>>
    /\ current_html = None
    /\ current_url = None
    /\ variables = <<>>
    /\ result = "Running"
    /\ executed = <<>>
    /\ io = <<>>
    /\ input = <<>>
    /\ output = <<>>

NextMedia ==
    \/ ExecuteOpen
    \/ ExecuteMedia
    \/ ExecuteReturn

SpecMedia == InitMedia /\ [][NextMedia]_vars

\* The calls made by the command at `path`, in order.
CallSeqBy(path) ==
    LET By(c) == c.by = path
    IN  SelectSeq(io, By)

\* The command dispatched last is a Media command that found a page loaded.
MediaRan ==
    /\ executed # <<>>
    /\ CommandIn(script, Last(executed)).kind = "Media"
    /\ current_html # None

\* The blocks of that command, and the media of the page it ran on.
RanBlocks == CommandIn(script, Last(executed)).media_blocks
PageMedia == extract_media_from_html(current_html, current_url)

RECURSIVE PassingItems(_, _, _)
\* Block by block from block i on, the items of the page that satisfy the
\* block's filters, in the order of the page.
PassingItems(media_items, media_blocks, i) ==
    IF i > Len(media_blocks)
    THEN <<>>
    ELSE Selected(media_items, media_blocks[i].filters)
         \o PassingItems(media_items, media_blocks, i + 1)

\* The calls of the Media command are one extraction, then one download for
\* each of `items` in order: all of them when no download fails, and up to
\* the failing one when one does.
ExtractedOnceThenDownloaded(items) ==
    LET calls == CallSeqBy(Last(executed))
        path == Last(executed)
    IN  /\ Len(calls) >= 1
        /\ calls[1] = ExtractMedia(current_html, current_url, path)
        /\ Len(calls) - 1 <= Len(items)
        /\ \A k \in 2..Len(calls) :
              /\ calls[k].op = "download_media"
              /\ calls[k].item = items[k - 1]
              /\ calls[k].ok = (k < Len(calls) \/ result # "DownloadFailed")
        /\ result # "DownloadFailed" => Len(calls) - 1 = Len(items)
        /\ result = "DownloadFailed" => Len(calls) >= 2

\* No block of the command has a "!=" filter.
NoNeFilter ==
    \A b \in 1..Len(RanBlocks) :
        \A f \in 1..Len(RanBlocks[b].filters) :
            RanBlocks[b].filters[f].kind = "Where"
                => RanBlocks[b].filters[f].operator # "!="

\* C15: a Media command that finds a page loaded extracts the media of the
\* page once, whatever the number of blocks, and then, block by block in
\* source order, downloads once each item that satisfies the block's filters,
\* and no other item.
C15_ExtractOnceDownloadPassing ==
    MediaRan => ExtractedOnceThenDownloaded(PassingItems(PageMedia, RanBlocks, 1))

\* C15 for the commands with no "!=" filter.
C15_WithoutNe ==
    (MediaRan /\ NoNeFilter)
        => ExtractedOnceThenDownloaded(PassingItems(PageMedia, RanBlocks, 1))

-----------------------------------------------------------------------------
(* MslEngine::generate_filename (engine/mod.rs 210-225) on its own.        *)

\* The longest media URL handed to generate_filename.
MaxUrlLen == 3

RECURSIVE split(_, _)
\* str::split(c): the pieces of s between the occurrences of the character c.
split(s, c) ==
    IF \A k \in 1..Len(s) : s[k] # c
    THEN <<s>>
    ELSE LET i == CHOOSE k \in 1..Len(s) : s[k] = c /\ \A j \in 1..(k - 1) : s[j] # c
         IN  <<Take(s, i - 1)>> \o split(Drop(s, i), c)

\* engine/mod.rs 216-220
DefaultExtension(media_type) ==
    CASE media_type = "Image" -> <<"j", "p", "g">>
      [] media_type = "Video" -> <<"m", "p", "4">>
      [] media_type = "Audio" -> <<"m", "p", "3">>

\* A slip generate_filename could make: the extension is appended whether or
\* not the name has one.
generate_filename_always(url, media_type) ==
    Last(split(url, "/")) \o <<".">> \o DefaultExtension(media_type)

generate_filename(url, media_type) ==
    LET filename == Last(split(url, "/"))
    IN  IF ~Contains(filename, <<".">>)
        THEN filename \o <<".">> \o DefaultExtension(media_type)
        ELSE filename

\* The characters of the URLs.
UrlChars == {"/", ".", "a", "b"}

InitFilename ==
    /\ EngineIdle
    /\ \E n \in 1..MaxUrlLen :
         \E u \in [1..n -> UrlChars] :
            \E t \in MediaTypes :
               input = [url |-> u, media_type |-> t]
    /\ output = <<>>

\* The call generate_filename(url, media_type).
GenerateFilename ==
    /\ output = <<>>
    /\ output' = <<generate_filename(input.url, input.media_type)>>
    /\ UNCHANGED <<engine, input>>

NextFilename == GenerateFilename

SpecFilename == InitFilename /\ [][NextFilename]_vars

\* The text after the last '/' of a URL (the URL itself if it has none).
AfterLastSlash(url) ==
    LET slashes == {k \in 1..Len(url) : url[k] = "/"}
    IN  IF slashes = {}
        THEN url
        ELSE Drop(url, CHOOSE k \in slashes : \A j \in slashes : j <= k)

HasDot(name) == \E k \in 1..Len(name) : name[k] = "."

\* C16: the filename is the text after the last '/' of the URL, unchanged if
\* it has a '.', and otherwise followed by a dot and the extension of the
\* item's kind: jpg for Image, mp4 for Video, mp3 for Audio.
C16_Filename ==
    output # <<>> =>
        LET name == AfterLastSlash(input.url)
            ext == CASE input.media_type = "Image" -> <<"j", "p", "g">>
                     [] input.media_type = "Video" -> <<"m", "p", "4">>
                     [] input.media_type = "Audio" -> <<"m", "p", "3">>
        IN  output[1] = IF HasDot(name) THEN name ELSE name \o <<".">> \o ext

\* The URL a/b of kind Video is named b.mp4.
C16_Witness ==
    /\ output # <<>>
    /\ input.url = <<"a", "/", "b">>
    /\ input.media_type = "Video"
    /\ output[1] = <<"b", ".", "m", "p", "4">>

-----------------------------------------------------------------------------
(* The kind of a block (SpecMedia).                                        *)

\* The items the Media command downloaded, in order.
DownloadedItems ==
    LET calls == CallSeqBy(Last(executed))
    IN  [k \in 1..(Len(calls) - 1) |-> calls[k + 1].item]

\* The Media command dispatched last found a page and all its downloads
\* succeeded.
MediaDone == MediaRan /\ result # "DownloadFailed"

RECURSIVE ItemsByFilters(_, _, _)
\* From filter list i on, the items filter_media selects for each filter
\* list in turn; the kinds of the blocks play no part.
ItemsByFilters(media_items, filter_lists, i) ==
    IF i > Len(filter_lists)
    THEN <<>>
    ELSE filter_media(media_items, filter_lists[i])
         \o ItemsByFilters(media_items, filter_lists, i + 1)

\* C17: what a Media command downloads depends on the filters of its blocks
\* and not on their kinds: the items are those its filter lists select from
\* all the media of the page; two blocks with the same filters and different
\* kinds download the same items, one after the other; and one block with no
\* filter downloads every item of the page, of whatever kind.
C17_KindIgnored ==
    MediaDone =>
        /\ DownloadedItems
              = ItemsByFilters(PageMedia,
                               [b \in 1..Len(RanBlocks) |-> RanBlocks[b].filters], 1)
        /\ (Len(RanBlocks) = 2 /\ RanBlocks[1].filters = RanBlocks[2].filters)
              => \E half \in 0..Len(PageMedia) :
                    /\ Len(DownloadedItems) = half + half
                    /\ \A k \in 1..half : DownloadedItems[k] = DownloadedItems[half + k]
        /\ (Len(RanBlocks) = 1 /\ RanBlocks[1].filters = <<>>)
              => DownloadedItems = PageMedia

\* An image block and an audio block, neither with a filter, on the page of
\* two images and a video: the three items are downloaded twice over.
C17_Witness ==
    /\ MediaDone
    /\ RanBlocks = <<MediaBlock("Image", <<>>), MediaBlock("Audio", <<>>)>>
    /\ current_html = "h1"
    /\ DownloadedItems = PageMedia \o PageMedia
    /\ Len(DownloadedItems) = 6

=============================================================================
